---- MODULE Spec2Model ----
(***************************************************************************)
(* Model of the client-side resilience layer of the wiki generator front   *)
(* end: the Home component (task submission, polling, persistence) of      *)
(* frontend/src/app/page.tsx with api.getTaskStatus of                     *)
(* frontend/src/lib/api.ts, and the page loader of the WikiViewer          *)
(* component (frontend/src/components/WikiViewer.tsx).                     *)
(*                                                                         *)
(* One time unit of the model is 1000 ms of the code.                      *)
(***************************************************************************)
EXTENDS Integers, Naturals, Sequences, FiniteSets, TLC

\* ------------------------------------------------------------------ bounds
\* Task ids the server hands out: 1 is a task created by an earlier page
\* instance, 2..MaxTasks are created by createTask in this run.
MaxTasks == 2
\* Slots for pending setTimeout timers.
MaxTimers == 2
\* Cap on simultaneously outstanding getTaskStatus requests per task id.
MaxOutstanding == 2
\* Cap on simultaneously outstanding content requests per page.
MaxFetches == 2

\* -------------------------------------------------------- program constants
\* setTimeout(() => pollStatus(id), 2000)
ShortDelay == 2
\* setTimeout(() => pollStatus(id), 5000)
LongDelay == 5
\* error.response?.status === 404
NotFoundCode == 404

\* null of a string-valued field
Null == "null"
\* null of taskId / of the persisted task id
NoTask == 0
\* null of pollTimerRef.current
NoTimerRef == 0

TaskIds == 1..MaxTasks
TimerSlots == 1..MaxTimers
\* A task of the user's history that completed in an earlier session.
OldTask == MaxTasks + 1
\* null of status
NoStatus ==
    [task_id |-> NoTask, status |-> Null, current_step |-> Null,
     result |-> Null, error |-> Null]
\* an empty timer slot
NoTimer == [id |-> NoTask, delay |-> 0, elapsed |-> 0, cause |-> Null]
\* no handleSubmit is suspended
NoSubmit == [pc |-> "idle", url |-> "", task_id |-> NoTask]
\* no submission is recorded
NoSubmission == [task_id |-> NoTask, url |-> Null]
\* What the user can type into the URL field; " " is blank after trim().
UrlInputs == {"", " ", "u1"}

Trim(u) == IF u = " " THEN "" ELSE u

VARIABLES
    \* ---- Home component state (page.tsx 30-39)
    session,        \* a Supabase session exists
    url,            \* useState('')
    taskId,         \* useState<string | null>(null)
    status,         \* useState<TaskStatusResponse | null>(null)
    isSubmitting,   \* useState(false)
    showHistory,    \* useState(false)
    pollTimerRef,   \* useRef<NodeJS.Timeout | null>(null)
    mounted,        \* the mount effects of this instance have run
    \* ---- environment of this page instance
    localStorage,   \* the two persisted keys
    timers,         \* pending setTimeout callbacks
    inflight,       \* outstanding getTaskStatus requests, per task id
    submit,         \* the suspended handleSubmit, if any
    nextTaskId,     \* next id the server assigns in POST /generate
    tickSize,       \* time units that pass in one Tick step
    \* ---- history variables used by the properties
    terminated,     \* tasks whose terminal record this instance committed
    cleared,        \* tasks that handleClear has cleared in this instance
    lastSubmit,     \* latest successful submission not followed by a clear
    \* ---- WikiViewer component (WikiViewer.tsx 52-59) and its requests
    contentUrls,    \* the contentUrls prop
    structure,      \* useState<WikiStructureItem[]>([])
    selectedId,     \* useState<string | null>(null)
    pageContent,    \* useState<WikiPageContent | null>(null)
    loading,        \* useState(true)
    loadingPage,    \* useState(false)
    error,          \* useState<string | null>(null)
    structureFetch, \* "unmounted", "inflight" or "settled"
    pageFetches,    \* outstanding content requests, per selected id
    structureData,  \* res.data of the structure request
    \* ---- a single call of api.getTaskStatus
    apiCall,
    \* ---- a single call of parseContentSafely
    parseCall,
    \* ---- the Mermaid module (Mermaid.tsx 10-11) and its components
    mermaidInitialized, \* let mermaidInitialized = false
    mermaidModule,      \* let mermaidModule = null (TRUE once imported)
    initializeCalls,    \* calls of mermaid.initialize so far
    instances,          \* the Mermaid component instances
    \* ---- prepareChart applied to a source and to its own result
    prepCall

vars == <<session, url, taskId, status, isSubmitting, showHistory,
          pollTimerRef, mounted, localStorage, timers, inflight, submit,
          nextTaskId, tickSize, terminated, cleared, lastSubmit,
          contentUrls, structure, selectedId, pageContent, loading,
          loadingPage, error, structureFetch, pageFetches, structureData,
          apiCall, parseCall, mermaidInitialized, mermaidModule,
          initializeCalls, instances, prepCall>>

mermaidVars == <<mermaidInitialized, mermaidModule, initializeCalls,
                 instances>>

\* Variables of the diagram renderer; no Home or WikiViewer handler writes
\* them.
diagramVars == <<mermaidVars, prepCall>>

\* The Home component, its environment and its history variables.
pageVars == <<session, url, taskId, status, isSubmitting, showHistory,
              pollTimerRef, mounted, localStorage, timers, inflight, submit,
              nextTaskId, tickSize, terminated, cleared, lastSubmit>>

homeVars == <<session, url, taskId, status, isSubmitting, showHistory,
              pollTimerRef, mounted, localStorage, timers, inflight, submit,
              nextTaskId, tickSize, terminated, cleared, lastSubmit,
              apiCall, parseCall, diagramVars>>

homeVarsButApi ==
    <<session, url, taskId, status, isSubmitting, showHistory, pollTimerRef,
      mounted, localStorage, timers, inflight, submit, nextTaskId, tickSize,
      terminated, cleared, lastSubmit, parseCall, diagramVars>>

wikiVars == <<contentUrls, structure, selectedId, pageContent, loading,
              loadingPage, error, structureFetch, pageFetches,
              structureData>>

\* Variables no Home handler writes after construction.
fixedVars == <<tickSize, wikiVars, apiCall, parseCall, diagramVars>>

\* ------------------------------------------------------------ api.ts
\* TaskStatusResponse (api.ts 58-67) as the server builds it: a result exactly
\* when completed, an error exactly when failed. progress and the timestamps
\* are display-only and left out.
ServerResponse(id, st) ==
    [task_id |-> id,
     status |-> st,
     current_step |-> "step",
     result |-> IF st = "completed" THEN "result" ELSE Null,
     error |-> IF st = "failed" THEN "remote error" ELSE Null]

\* error.response?.status of a rejected request; NoResponse when the error
\* carries no response (network failure, timeout).
NoResponse == 0
ErrorCodes == {NoResponse, 400, 401, 403, NotFoundCode, 500, 502, 503}

\* How axios.get of GET /task/{id} can settle: it resolves with the server's
\* record, or rejects with an error that is an AxiosError or not and that
\* carries a response status or none.
Outcomes(id) ==
    { [kind |-> "ok", isAxiosError |-> FALSE, code |-> 200,
       data |-> ServerResponse(id, st)] :
        st \in {"pending", "processing", "completed", "failed"} }
    \cup { [kind |-> "error", isAxiosError |-> ax, code |-> c,
            data |-> NoStatus] :
             ax \in BOOLEAN, c \in ErrorCodes }

\* The outcomes the polling model draws from.
PollOutcomes(id) ==
    { o \in Outcomes(id) :
        o.kind = "ok" \/ (o.isAxiosError /\ o.code \in {NoResponse, NotFoundCode, 500}) }

\* Variant of GetTaskStatus without the 404 branch: every error is rethrown.
GetTaskStatus_Rethrows404(task_id, outcome) ==
    IF outcome.kind = "ok"
    THEN [threw |-> FALSE, value |-> outcome.data]
    ELSE [threw |-> TRUE, value |-> NoStatus]

\* api.getTaskStatus (api.ts 85-104): the value returned, or threw = TRUE
\* when it rethrows.
GetTaskStatus(task_id, outcome) ==
    IF outcome.kind = "ok"
    THEN [threw |-> FALSE, value |-> outcome.data]
    ELSE IF outcome.isAxiosError /\ outcome.code = NotFoundCode
    THEN [threw |-> FALSE,
          value |-> [task_id |-> task_id,
                     status |-> "failed",
                     current_step |-> "Task not found",
                     result |-> Null,
                     error |-> "Task not found or expired"]]
    ELSE [threw |-> TRUE, value |-> NoStatus]

\* No call of api.getTaskStatus is being observed.
NoCall ==
    [pc |-> "none", task_id |-> NoTask,
     outcome |-> [kind |-> "none", isAxiosError |-> FALSE, code |-> NoResponse,
                  data |-> NoStatus],
     value |-> NoStatus]

IsTerminal(res) == res.status = "completed" \/ res.status = "failed"

\* ------------------------------------------------------------ timers
NoTimers == [s \in TimerSlots |-> NoTimer]
FreeSlots(tms) == {s \in TimerSlots : tms[s] = NoTimer}
NewSlot(tms) == CHOOSE s \in FreeSlots(tms) : \A t \in FreeSlots(tms) : s <= t

\* setTimeout(() => pollStatus(id), delay); cause records which branch of
\* pollStatus armed the timer.
SetTimeout(tms, id, delay, cause) ==
    [tms EXCEPT ![NewSlot(tms)] =
        [id |-> id, delay |-> delay, elapsed |-> 0, cause |-> cause]]

\* if (pollTimerRef.current) clearTimeout(pollTimerRef.current).
\* pollTimerRef holds the slot of a pending timer or NoTimerRef: a handle
\* whose timer has fired or was cleared behaves as null in clearTimeout.
ClearTimeout(tms, ref) ==
    IF ref = NoTimerRef THEN tms ELSE [tms EXCEPT ![ref] = NoTimer]

\* The synchronous head of pollStatus(id): issue api.getTaskStatus(id).
CallPollStatus(inf, id) == [inf EXCEPT ![id] = @ + 1]

TimersOf(tms, id) == {s \in TimerSlots : tms[s].id = id}

\* ------------------------------------------------------------ rendering
\* page.tsx 195
IsCompleted ==
    status.status = "completed" /\ status.result # Null
StatusIs(st) == status.status = st

\* Variant of FormShown that renders the form whatever the task state is.
FormShown_Always == session /\ ~showHistory

\* page.tsx 373, 384: the input form is rendered.
FormShown ==
    session /\ ~showHistory /\ ~IsCompleted
    /\ (taskId = NoTask \/ StatusIs("failed"))
\* page.tsx 395: the input's disabled attribute.
InputDisabled ==
    isSubmitting \/ (taskId # NoTask /\ StatusIs("processing"))
\* page.tsx 399: the submit button's disabled attribute.
SubmitDisabled == InputDisabled \/ Trim(url) = ""
\* page.tsx 279, 412, 469: a button bound to handleClear is rendered.
ClearShown ==
    session
    /\ \/ IsCompleted
       \/ ~showHistory /\ (StatusIs("failed") \/ taskId # NoTask)

\* ------------------------------------------------------------ WikiViewer data
\* Ids of the pages of the documentation sets used here.
PageIds == {"a", "b", "c", "unknown"}

\* `${id}.json`
JsonName(id) ==
    CASE id = "a" -> "a.json"
      [] id = "b" -> "b.json"
      [] id = "c" -> "c.json"
      [] OTHER -> "unknown.json"

\* filename.replace('.json', '')
StripJson(f) ==
    CASE f = "a.json" -> "a"
      [] f = "b.json" -> "b"
      [] f = "c.json" -> "c"
      [] f = "unknown.json" -> "unknown"
      [] OTHER -> f

\* A raw entry of a structure document; Null stands for an absent field and
\* t tells an object from a null entry.
RawItem(id, section_id, filename, title, children) ==
    [t |-> "object", id |-> id, section_id |-> section_id,
     filename |-> filename, title |-> title, name |-> Null,
     children |-> children]

Leaf(id) == RawItem(id, Null, Null, id, <<>>)

\* null as an entry of a list
NullEntry == [RawItem(Null, Null, Null, Null, <<>>) EXCEPT !.t = "null"]

\* The value of a toc or pages field: an array, or absent / not an array.
NotArray == [isArray |-> FALSE, items |-> <<>>]
Arr(items) == [isArray |-> TRUE, items |-> items]

\* The values of the keys of a flat mapping: a string, an object with its
\* title field, null, a number.
StrVal(text) == [t |-> "string", s |-> text, title |-> Null]
ObjVal(title) == [t |-> "object", s |-> Null, title |-> title]
NullVal == [t |-> "null", s |-> Null, title |-> Null]
NumVal == [t |-> "number", s |-> Null, title |-> Null]
Entry(key, value) == [key |-> key, value |-> value]

\* res.data of the structure request (WikiViewer.tsx 137): an array, an
\* object with its toc and pages fields and its keys in Object.keys order,
\* null, or a number.
ArrayDoc(items) ==
    [kind |-> "array", items |-> items, toc |-> NotArray, pages |-> NotArray,
     entries |-> <<>>]
ObjectDoc(toc, pages, entries) ==
    [kind |-> "object", items |-> <<>>, toc |-> toc, pages |-> pages,
     entries |-> entries]
NullDoc ==
    [kind |-> "null", items |-> <<>>, toc |-> NotArray, pages |-> NotArray,
     entries |-> <<>>]
ScalarDoc ==
    [kind |-> "scalar", items |-> <<>>, toc |-> NotArray, pages |-> NotArray,
     entries |-> <<>>]

\* No response data yet.
NoDoc ==
    [kind |-> "none", items |-> <<>>, toc |-> NotArray, pages |-> NotArray,
     entries |-> <<>>]

\* {toc: [{id:"a",title:"A"}, {id:"b",title:"B",children:[{id:"c",title:"C"}]}]}
TocExampleDoc ==
    ObjectDoc(Arr(<< RawItem("a", Null, Null, "A", <<>>),
                     RawItem("b", Null, Null, "B",
                             << RawItem("c", Null, Null, "C", <<>>) >>) >>),
              NotArray, <<>>)

\* The documents the structure URL may serve without a defect.
WellFormedDocs ==
    { ArrayDoc(<< Leaf("a"), RawItem("b", Null, Null, "B", << Leaf("c") >>) >>),
      TocExampleDoc,
      ObjectDoc(Arr(<< Leaf("b"), Leaf("a") >>), Arr(<< Leaf("c") >>), <<>>),
      ObjectDoc(Arr(<< RawItem(Null, "a", Null, "A", <<>>),
                       RawItem(Null, "b", Null, Null, <<>>) >>),
                NotArray, <<>>),
      ObjectDoc(NotArray,
                Arr(<< RawItem(Null, Null, "c.json", "C", <<>>),
                       RawItem(Null, Null, Null, "X", <<>>) >>), <<>>),
      ObjectDoc(NotArray, NotArray,
                << Entry("a", StrVal("A title")),
                   Entry("b", ObjVal("B title")) >>),
      ObjectDoc(NotArray, NotArray,
                << Entry("a", StrVal("")), Entry("b", ObjVal(Null)),
                   Entry("", StrVal("E title")) >>),
      ArrayDoc(<< RawItem("b", Null, Null, "B",
                          << RawItem(Null, "c", Null, "C", <<>>) >>) >>),
      ArrayDoc(<<>>) }

\* The malformed documents: null, a scalar, a mapping with a null or a scalar
\* value, a list with a null entry.
MalformedDocs ==
    { NullDoc,
      ScalarDoc,
      ObjectDoc(NotArray, NotArray,
                << Entry("a", StrVal("A title")), Entry("b", NullVal) >>),
      ObjectDoc(NotArray, NotArray,
                << Entry("a", NumVal), Entry("b", StrVal("B title")) >>),
      ArrayDoc(<< Leaf("a"), NullEntry >>) }

StructureDocs == WellFormedDocs \cup MalformedDocs

\* x || y on strings: null, undefined and '' are falsy.
Or(x, y) == IF x \notin {Null, ""} THEN x ELSE y

\* WikiViewer.tsx 154-163: one entry of data.map(...). children are copied
\* as they are.
NormalizeItem(item) ==
    LET id == Or(item.id,
                 Or(item.section_id,
                    IF item.filename \notin {Null, ""}
                    THEN StripJson(item.filename)
                    ELSE "unknown"))
    IN [id |-> id,
        title |-> Or(item.title, Or(item.name, "Untitled")),
        filename |-> Or(item.filename, JsonName(id)),
        children |-> item.children]

\* Variant of FlatItem that takes the key as the title.
FlatItem_KeyAsTitle(e) == RawItem(e.key, Null, Null, e.key, <<>>)

\* WikiViewer.tsx 147-150: the object built for one key of a flat mapping.
FlatItem(e) ==
    RawItem(e.key, Null, Null,
            IF e.value.t = "string" THEN e.value.s
            ELSE Or(e.value.title, e.key),
            <<>>)

\* Variant of PickList that looks at pages before toc.
PickList_PagesFirst(data) ==
    CASE data.kind = "array" -> [threw |-> FALSE, items |-> data.items]
      [] data.kind = "null" -> [threw |-> TRUE, items |-> <<>>]
      [] data.kind = "scalar" -> [threw |-> FALSE, items |-> <<>>]
      [] OTHER ->
           IF data.pages.isArray
           THEN [threw |-> FALSE, items |-> data.pages.items]
           ELSE IF data.toc.isArray
           THEN [threw |-> FALSE, items |-> data.toc.items]
           ELSE IF \E i \in 1..Len(data.entries) :
                      data.entries[i].value.t = "null"
           THEN [threw |-> TRUE, items |-> <<>>]
           ELSE [threw |-> FALSE,
                 items |-> [i \in 1..Len(data.entries) |->
                              FlatItem(data.entries[i])]]

\* WikiViewer.tsx 141-152: the list data.map runs over. threw tells that
\* reading a property of null raised a TypeError.
PickList(data) ==
    CASE data.kind = "array" -> [threw |-> FALSE, items |-> data.items]
      [] data.kind = "null" -> [threw |-> TRUE, items |-> <<>>]
      [] data.kind = "scalar" -> [threw |-> FALSE, items |-> <<>>]
      [] OTHER ->
           IF data.toc.isArray
           THEN [threw |-> FALSE, items |-> data.toc.items]
           ELSE IF data.pages.isArray
           THEN [threw |-> FALSE, items |-> data.pages.items]
           ELSE IF \E i \in 1..Len(data.entries) :
                      data.entries[i].value.t = "null"
           THEN [threw |-> TRUE, items |-> <<>>]
           ELSE [threw |-> FALSE,
                 items |-> [i \in 1..Len(data.entries) |->
                              FlatItem(data.entries[i])]]

\* WikiViewer.tsx 141-163: normalized for the response data, or the throw
\* that the catch of fetchStructure receives.
NormalizeStructure(doc) ==
    LET picked == PickList(doc) IN
    IF picked.threw
       \/ \E i \in 1..Len(picked.items) : picked.items[i].t = "null"
    THEN [threw |-> TRUE, value |-> <<>>]
    ELSE [threw |-> FALSE,
          value |-> [i \in 1..Len(picked.items) |->
                       NormalizeItem(picked.items[i])]]

RECURSIVE FlattenIds(_)
\* WikiViewer.tsx 199-213: the ids of flattenStructure(structure), in
\* depth-first order.
FlattenIds(items) ==
    IF items = <<>> THEN <<>>
    ELSE <<Head(items).id>> \o FlattenIds(Head(items).children)
         \o FlattenIds(Tail(items))

\* WikiViewer.tsx 256-265: findItemById(items, id) finds an item.
FoundById(items, id) ==
    \E i \in 1..Len(FlattenIds(items)) : FlattenIds(items)[i] = id

\* flatStructure.findIndex(item => item.id === selectedId), 1-based;
\* 0 stands for -1.
FindIndex(ids, id) ==
    IF \E i \in 1..Len(ids) : ids[i] = id
    THEN CHOOSE i \in 1..Len(ids) :
            ids[i] = id /\ \A j \in 1..(i - 1) : ids[j] # id
    ELSE 0

\* The content URL lists a completed task may carry.
\* The third list names its files by position only.
ContentUrlLists ==
    { << "https://h/p/a.json", "https://h/p/b.json", "https://h/p/c.json" >>,
      << "https://h/p/b.json", "https://h/p/a.json" >>,
      << "https://h/p/0.json", "https://h/p/1.json" >> }

\* A JSON value as far as parseContentSafely looks at it: an object with its
\* intro (Null when it is not a string), sections (isArray tells whether it
\* is an array) and mermaid fields, a string, or anything else.
JObject(intro, isArray, sections, mermaid) ==
    [t |-> "object", text |-> Null, intro |-> intro, isArray |-> isArray,
     sections |-> sections, mermaid |-> mermaid]
JString(text) ==
    [t |-> "string", text |-> text, intro |-> Null, isArray |-> FALSE,
     sections |-> <<>>, mermaid |-> Null]
JOther ==
    [t |-> "other", text |-> Null, intro |-> Null, isArray |-> FALSE,
     sections |-> <<>>, mermaid |-> Null]

SectionB == [heading |-> "B heading", body |-> "B body"]
SectionS == [heading |-> "S heading", body |-> "S body"]
RealIntroText == "{\"intro\":\"real intro\",\"sections\":[]}"
WholeCText == "{\"intro\":\"intro c\",\"sections\":[],\"mermaid\":\"graph c\"}"
IntroOnlyText == "{\"intro\":\"inner intro\"}"
SectionsOnlyText == "{\"sections\":[{\"heading\":\"S heading\",\"body\":\"S body\"}]}"
EmptyIntroText == "{\"intro\":\"\",\"sections\":[],\"mermaid\":\"\"}"
BrokenText == "{broken"
\* A serialized object whose intro is again a serialized object, and a
\* serialized object serialized a second time (a JSON string literal).
NestedIntroText == "{\"intro\":\"{\\\"intro\\\":\\\"real intro\\\",\\\"sections\\\":[]}\",\"sections\":[]}"
TwiceWholeCText == "\"{\\\"intro\\\":\\\"intro c\\\",\\\"sections\\\":[],\\\"mermaid\\\":\\\"graph c\\\"}\""
\* A mermaid field that holds a number (42), which is truthy and no string.
NumberValue == "<number 42>"

\* The serialized objects among the texts.
SerializedTexts ==
    {RealIntroText, WholeCText, IntroOnlyText, SectionsOnlyText, EmptyIntroText,
     NestedIntroText}

\* text.trim().startsWith('{')
StartsWithBrace(text) == text \in SerializedTexts \cup {BrokenText}

\* JSON.parse(text): ok = FALSE when it throws.
JsonParse(text) ==
    CASE text = RealIntroText ->
           [ok |-> TRUE, value |-> JObject("real intro", TRUE, <<>>, Null)]
      [] text = WholeCText ->
           [ok |-> TRUE, value |-> JObject("intro c", TRUE, <<>>, "graph c")]
      [] text = IntroOnlyText ->
           [ok |-> TRUE, value |-> JObject("inner intro", FALSE, <<>>, Null)]
      [] text = SectionsOnlyText ->
           [ok |-> TRUE, value |-> JObject(Null, TRUE, <<SectionS>>, Null)]
      [] text = EmptyIntroText ->
           [ok |-> TRUE, value |-> JObject("", TRUE, <<>>, "")]
      [] text = NestedIntroText ->
           [ok |-> TRUE, value |-> JObject(RealIntroText, TRUE, <<>>, Null)]
      [] text = TwiceWholeCText ->
           [ok |-> TRUE, value |-> JString(WholeCText)]
      [] OTHER -> [ok |-> FALSE, value |-> JOther]

EmptyContent == [intro |-> "", sections |-> <<>>, mermaid |-> ""]

RECURSIVE parseContentSafely(_)
\* WikiViewer.tsx 64-126
parseContentSafely(rawContent) ==
    IF rawContent.t = "object" /\ rawContent.intro # Null /\ rawContent.isArray
    THEN IF StartsWithBrace(rawContent.intro)
         THEN LET p == JsonParse(rawContent.intro) IN
              IF p.ok /\ p.value.t # "other"
              THEN [intro |-> IF p.value.intro \notin {Null, ""}
                              THEN p.value.intro ELSE rawContent.intro,
                    sections |-> IF p.value.isArray THEN p.value.sections
                                 ELSE rawContent.sections,
                    mermaid |-> IF p.value.mermaid \notin {Null, ""}
                                THEN p.value.mermaid
                                ELSE IF rawContent.mermaid \notin {Null, ""}
                                THEN rawContent.mermaid ELSE ""]
              ELSE [intro |-> rawContent.intro,
                    sections |-> rawContent.sections,
                    mermaid |-> IF rawContent.mermaid \notin {Null, ""}
                                THEN rawContent.mermaid ELSE ""]
         ELSE [intro |-> rawContent.intro,
               sections |-> rawContent.sections,
               mermaid |-> IF rawContent.mermaid \notin {Null, ""}
                           THEN rawContent.mermaid ELSE ""]
    ELSE IF rawContent.t = "string"
    THEN LET p == JsonParse(rawContent.text) IN
         IF p.ok THEN parseContentSafely(p.value) ELSE EmptyContent
    ELSE EmptyContent

\* The document a content URL serves (WikiPageContent) with its raw content.
DocAt(u) ==
    CASE u \in {"https://h/p/a.json", "https://h/p/0.json"} ->
           [section_id |-> "a",
            content |-> JObject("intro a", TRUE, <<>>, "graph a")]
      [] u \in {"https://h/p/b.json", "https://h/p/1.json"} ->
           [section_id |-> "b",
            content |-> JObject(RealIntroText, TRUE, <<SectionB>>, Null)]
      [] OTHER ->
           [section_id |-> "c", content |-> JString(WholeCText)]

\* null of pageContent
NoPage == [section_id |-> Null, content |-> EmptyContent]

\* WikiViewer.tsx 235-244: finalPageContent for the response data.
FinalPageContent(data) ==
    [section_id |-> data.section_id,
     content |-> parseContentSafely(data.content)]

\* The values parseContentSafely is called with: objects with a string or
\* absent intro, with or without an array of sections and a mermaid field,
\* strings, and other values.
RawContents ==
    { JObject(i, a, x, m) :
        i \in SerializedTexts \cup {BrokenText, "intro a", "", Null},
        a \in BOOLEAN, x \in {<<>>, <<SectionB>>},
        m \in {Null, "", "graph outer", NumberValue} }
    \cup { JString(t) :
             t \in SerializedTexts \cup {BrokenText, "intro a", TwiceWholeCText} }
    \cup { JOther }

\* No call of parseContentSafely.
NoParse == [pc |-> "idle", rawContent |-> JOther, value |-> EmptyContent]

\* ------------------------------------------------------------ Mermaid.tsx
MaxSourceLen == 4
MaxComponents == 2
MaxChartChanges == 2

\* The component instances; a remount is another instance.
CompIds == 1..MaxComponents

\* The characters of a diagram source: a word character, the delimiters
\* of a label, a character that breaks the grammar, a quote, a backslash,
\* a space and a line feed. A source is a sequence of them.
SourceChars == {"n", "[", "]", "(", "/", "\"", "\\", " ", "\n"}

RECURSIVE SeqsUpTo(_, _)
SeqsUpTo(S, n) ==
    IF n = 0 THEN {<<>>}
    ELSE LET shorter == SeqsUpTo(S, n - 1) IN
         shorter \cup { Append(q, ch) : q \in shorter, ch \in S }

Sources == SeqsUpTo(SourceChars, MaxSourceLen)

IsSpace(ch) == ch \in {" ", "\n"}
IsWord(ch) == ch \in {"n"}
IsOpen(ch) == ch \in {"[", "(", "{"}
IsClose(ch) == ch \in {"]", ")", "}"}
IsQuote(ch) == ch \in {"\"", "'"}
IsSpecial(ch) == ch \in {"/", "(", ")", "@", "#", "&", "<", ">"}

RECURSIVE TrimStart(_)
TrimStart(s) ==
    IF s # <<>> /\ IsSpace(Head(s)) THEN TrimStart(Tail(s)) ELSE s

RECURSIVE TrimEnd(_)
TrimEnd(s) ==
    IF s # <<>> /\ IsSpace(s[Len(s)])
    THEN TrimEnd(SubSeq(s, 1, Len(s) - 1)) ELSE s

\* String.prototype.trim
TrimText(s) == TrimEnd(TrimStart(s))

RECURSIVE UnescapeNewlines(_)
\* Mermaid.tsx 62: prepared.replace(/\\n/g, '\n')
UnescapeNewlines(s) ==
    IF s = <<>> THEN <<>>
    ELSE IF Len(s) >= 2 /\ s[1] = "\\" /\ s[2] = "n"
    THEN <<"\n">> \o UnescapeNewlines(SubSeq(s, 3, Len(s)))
    ELSE <<Head(s)>> \o UnescapeNewlines(Tail(s))

RECURSIVE WordRun(_, _)
\* (\w+): the length of the longest run of word characters from position i
WordRun(s, i) ==
    IF i <= Len(s) /\ IsWord(s[i]) THEN 1 + WordRun(s, i + 1) ELSE 0

RECURSIVE LabelRun(_, _)
\* ([^\]\)\}]+): the length of the longest run of characters that close no
\* label, from position i
LabelRun(s, i) ==
    IF i <= Len(s) /\ ~IsClose(s[i]) THEN 1 + LabelRun(s, i + 1) ELSE 0

\* Mermaid.tsx 66: the match of the label pattern that starts at position
\* i, if there is one.
LabelMatch(s, i) ==
    LET w == WordRun(s, i)
        l == LabelRun(s, i + w + 1)
        ok == /\ w >= 1
              /\ i + w <= Len(s)
              /\ IsOpen(s[i + w])
              /\ l >= 1
              /\ i + w + 1 + l <= Len(s)
    IN [ok |-> ok,
        nodeId |-> IF ok THEN SubSeq(s, i, i + w - 1) ELSE <<>>,
        openBracket |-> IF ok THEN <<s[i + w]>> ELSE <<>>,
        label |-> IF ok THEN SubSeq(s, i + w + 1, i + w + l) ELSE <<>>,
        closeBracket |-> IF ok THEN <<s[i + w + 1 + l]>> ELSE <<>>,
        last |-> IF ok THEN i + w + 1 + l ELSE i]

\* Mermaid.tsx 68: /^["'].*["']$/.test(label.trim())
IsQuoted(label) ==
    LET t == TrimText(label) IN
    /\ Len(t) >= 2
    /\ IsQuote(t[1])
    /\ IsQuote(t[Len(t)])
    /\ \A k \in 2..(Len(t) - 1) : t[k] # "\n"

\* Mermaid.tsx 72: /[\/\(\)@#&<>]/.test(label)
HasSpecial(label) == \E k \in 1..Len(label) : IsSpecial(label[k])

\* Mermaid.tsx 66-76: the replacement of one match.
WrapLabel(m) ==
    IF IsQuoted(m.label) THEN m.nodeId \o m.openBracket \o m.label \o m.closeBracket
    ELSE IF HasSpecial(m.label)
    THEN m.nodeId \o m.openBracket \o <<"\"">> \o m.label \o <<"\"">>
         \o m.closeBracket
    ELSE m.nodeId \o m.openBracket \o m.label \o m.closeBracket

RECURSIVE WrapLabels(_, _)
\* Mermaid.tsx 66-76: the global replace, scanning from position i.
WrapLabels(s, i) ==
    IF i > Len(s) THEN <<>>
    ELSE LET m == LabelMatch(s, i) IN
         IF m.ok THEN WrapLabel(m) \o WrapLabels(s, m.last + 1)
         ELSE <<s[i]>> \o WrapLabels(s, i + 1)

\* Mermaid.tsx 59-79
prepareChart(code) == WrapLabels(UnescapeNewlines(TrimText(code)), 1)

\* No call of prepareChart.
NoPrepare == [pc |-> "idle", code |-> <<>>, once |-> <<>>, twice |-> <<>>]

\* The values of the chart prop: '', a label with a special character and
\* a source that ends in a literal backslash-n.
EmptyChart == <<>>
ChartOne == <<"n", "[", "/", "]">>
ChartTwo == <<"n", "\\", "n">>
Charts == {EmptyChart, ChartOne, ChartTwo}

\* The svg mermaid.render resolves with for a source.
SvgOf(source) == <<"<svg>">> \o source

\* Mermaid.tsx 15-17: an instance before it mounts. load is the pending
\* loadMermaid call, timer the pending setTimeout of the render effect,
\* renders the renderChart calls that await mermaid.render; started,
\* latest, rejections, changes and early record what happened to the
\* instance.
FreshComponent ==
    [life |-> "new", chart |-> EmptyChart, svg |-> <<>>, isError |-> FALSE,
     isLoading |-> TRUE, load |-> "none", timer |-> FALSE, renders |-> {},
     started |-> 0, latest |-> "none", rejections |-> 0, changes |-> 0,
     early |-> FALSE]

\* Mermaid.tsx 10-11: the module as loaded, no component mounted.
MermaidFresh ==
    /\ mermaidInitialized = FALSE
    /\ mermaidModule = FALSE
    /\ initializeCalls = 0
    /\ instances = [c \in CompIds |-> FreshComponent]

DiagramIdle == MermaidFresh /\ prepCall = NoPrepare

\* ------------------------------------------------------------ Init
\* The persistence store as an earlier instance may have left it.
LocalStorageInits ==
    { [wiki_gen_task_id |-> NoTask, wiki_gen_repo_url |-> Null],
      [wiki_gen_task_id |-> 1, wiki_gen_repo_url |-> "u0"] }

\* page.tsx 30-39: the state of a constructed, not yet mounted instance.
FreshInstance ==
    /\ session = FALSE
    /\ url = ""
    /\ taskId = NoTask
    /\ status = NoStatus
    /\ isSubmitting = FALSE
    /\ showHistory = FALSE
    /\ pollTimerRef = NoTimerRef
    /\ mounted = FALSE
    /\ timers = NoTimers
    /\ inflight = [t \in TaskIds |-> 0]
    /\ submit = NoSubmit
    /\ terminated = {}
    /\ cleared = {}

\* WikiViewer.tsx 53-59: the state of a constructed WikiViewer whose mount
\* effect has not run.
WikiFresh ==
    /\ structure = <<>>
    /\ selectedId = Null
    /\ pageContent = NoPage
    /\ loading = TRUE
    /\ loadingPage = FALSE
    /\ error = Null
    /\ structureFetch = "unmounted"
    /\ pageFetches = [i \in PageIds |-> 0]
    /\ structureData = NoDoc

\* No viewer is rendered.
WikiIdle == WikiFresh /\ contentUrls = <<>>

HomeInit ==
    /\ FreshInstance
    /\ localStorage \in LocalStorageInits
    /\ lastSubmit = IF localStorage.wiki_gen_task_id = NoTask
                    THEN NoSubmission
                    ELSE [task_id |-> localStorage.wiki_gen_task_id,
                          url |-> localStorage.wiki_gen_repo_url]
    /\ nextTaskId = 2
    /\ WikiIdle
    /\ apiCall = NoCall
    /\ parseCall = NoParse
    /\ DiagramIdle

\* Time passes in steps that make every pending timer due.
Init == HomeInit /\ tickSize = LongDelay

\* Time passes one unit at a time.
InitTimed == HomeInit /\ tickSize = 1

\* ------------------------------------------------------------ Home actions
\* page.tsx 148: while the alert is open the page runs no handler, callback
\* or continuation.
AlertOpen == submit.pc = "alert"

\* Variant of RestoreEffect that restores taskId without resuming the poll.
RestoreEffect_NoPoll ==
    /\ ~mounted
    /\ mounted' = TRUE
    /\ LET savedTaskId == localStorage.wiki_gen_task_id IN
       IF savedTaskId # NoTask
       THEN taskId' = savedTaskId
       ELSE UNCHANGED taskId
    /\ UNCHANGED <<session, url, status, isSubmitting, showHistory,
                   pollTimerRef, localStorage, timers, inflight, submit,
                   nextTaskId, terminated, cleared, lastSubmit, fixedVars>>

\* page.tsx 85-92: the restore effect of a freshly mounted instance.
RestoreEffect ==
    /\ ~mounted
    /\ mounted' = TRUE
    /\ LET savedTaskId == localStorage.wiki_gen_task_id IN
       IF savedTaskId # NoTask
       THEN /\ taskId' = savedTaskId
            /\ inflight' = CallPollStatus(inflight, savedTaskId)
       ELSE UNCHANGED <<taskId, inflight>>
    /\ UNCHANGED <<session, url, status, isSubmitting, showHistory,
                   pollTimerRef, localStorage, timers, submit, nextTaskId,
                   terminated, cleared, lastSubmit, fixedVars>>

\* page.tsx 47-48, 57-58: getSession / onAuthStateChange deliver the user's
\* session. Signing out (163-165) belongs to the authentication screens and
\* is not modelled: without a session only the Auth form is rendered.
AuthStateChange ==
    /\ ~AlertOpen
    /\ mounted
    /\ ~session
    /\ session' = TRUE
    /\ UNCHANGED <<url, taskId, status, isSubmitting, showHistory,
                   pollTimerRef, mounted, localStorage, timers, inflight,
                   submit, nextTaskId, terminated, cleared, lastSubmit,
                   fixedVars>>

\* page.tsx 394: onChange of the URL input.
SetUrl(u) ==
    /\ ~AlertOpen
    /\ mounted /\ FormShown /\ ~InputDisabled
    /\ u # url
    /\ url' = u
    /\ UNCHANGED <<session, taskId, status, isSubmitting, showHistory,
                   pollTimerRef, mounted, localStorage, timers, inflight,
                   submit, nextTaskId, terminated, cleared, lastSubmit,
                   fixedVars>>

\* page.tsx 245, 272, 325: the History / Close History buttons.
ToggleHistory ==
    /\ ~AlertOpen
    /\ mounted /\ session
    /\ showHistory' = ~showHistory
    /\ UNCHANGED <<session, url, taskId, status, isSubmitting, pollTimerRef,
                   mounted, localStorage, timers, inflight, submit,
                   nextTaskId, terminated, cleared, lastSubmit, fixedVars>>

\* Variant of PollStatusSettled whose terminal branch arms the short timer
\* like the non-terminal one.
PollStatusSettled_KeepsPolling(id, outcome, st, tms, ref) ==
    LET r == GetTaskStatus(id, outcome) IN
    IF ~r.threw
    THEN [status |-> r.value,
          timers |-> SetTimeout(tms, id, ShortDelay, "response"),
          ref |-> NewSlot(tms)]
    ELSE [status |-> st,
          timers |-> SetTimeout(tms, id, LongDelay, "error"),
          ref |-> NewSlot(tms)]

\* Variant of PollStatusSettled whose catch block retries after the short
\* delay.
PollStatusSettled_ShortRetry(id, outcome, st, tms, ref) ==
    LET r == GetTaskStatus(id, outcome) IN
    IF ~r.threw
    THEN IF IsTerminal(r.value)
         THEN [status |-> r.value,
               timers |-> ClearTimeout(tms, ref),
               ref |-> NoTimerRef]
         ELSE [status |-> r.value,
               timers |-> SetTimeout(tms, id, ShortDelay, "response"),
               ref |-> NewSlot(tms)]
    ELSE [status |-> st,
          timers |-> SetTimeout(tms, id, ShortDelay, "error"),
          ref |-> NewSlot(tms)]

\* pollStatus after api.getTaskStatus(id) has settled with outcome
\* (page.tsx 97-121): the new status, timers and pollTimerRef. The Supabase
\* sync of the terminal branch (104-114) awaits calls that return {error}
\* instead of throwing and writes none of the state modelled here.
PollStatusSettled(id, outcome, st, tms, ref) ==
    LET r == GetTaskStatus(id, outcome) IN
    IF ~r.threw
    THEN IF IsTerminal(r.value)
         THEN [status |-> r.value,
               timers |-> ClearTimeout(tms, ref),
               ref |-> NoTimerRef]
         ELSE [status |-> r.value,
               timers |-> SetTimeout(tms, id, ShortDelay, "response"),
               ref |-> NewSlot(tms)]
    ELSE [status |-> st,
          timers |-> SetTimeout(tms, id, LongDelay, "error"),
          ref |-> NewSlot(tms)]

\* An outstanding getTaskStatus(id) settles and pollStatus resumes.
PollSettle(id, outcome) ==
    /\ ~AlertOpen
    /\ mounted
    /\ inflight[id] > 0
    /\ FreeSlots(timers) # {}
    /\ LET n == PollStatusSettled(id, outcome, status, timers, pollTimerRef)
           r == GetTaskStatus(id, outcome) IN
       /\ status' = n.status
       /\ timers' = n.timers
       /\ pollTimerRef' = n.ref
       /\ terminated' = IF ~r.threw /\ IsTerminal(r.value)
                        THEN terminated \cup {id} ELSE terminated
    /\ inflight' = [inflight EXCEPT ![id] = @ - 1]
    /\ UNCHANGED <<session, url, taskId, isSubmitting, showHistory, mounted,
                   localStorage, submit, nextTaskId, cleared, lastSubmit,
                   fixedVars>>

\* Variant of TimerFire for a fixed-rate timer: the callback stays armed.
TimerFire_Interval(s) ==
    /\ ~AlertOpen
    /\ mounted
    /\ timers[s] # NoTimer
    /\ timers[s].elapsed >= timers[s].delay
    /\ inflight[timers[s].id] < MaxOutstanding
    /\ inflight' = CallPollStatus(inflight, timers[s].id)
    /\ timers' = [timers EXCEPT ![s].elapsed = 0]
    /\ UNCHANGED <<session, url, taskId, status, isSubmitting, showHistory,
                   pollTimerRef, mounted, localStorage, submit, nextTaskId,
                   terminated, cleared, lastSubmit, fixedVars>>

\* The runtime runs a due setTimeout callback: () => pollStatus(id).
TimerFire(s) ==
    /\ ~AlertOpen
    /\ mounted
    /\ timers[s] # NoTimer
    /\ timers[s].elapsed >= timers[s].delay
    /\ inflight[timers[s].id] < MaxOutstanding
    /\ inflight' = CallPollStatus(inflight, timers[s].id)
    /\ timers' = [timers EXCEPT ![s] = NoTimer]
    /\ pollTimerRef' = IF pollTimerRef = s THEN NoTimerRef ELSE pollTimerRef
    /\ UNCHANGED <<session, url, taskId, status, isSubmitting, showHistory,
                   mounted, localStorage, submit, nextTaskId, terminated,
                   cleared, lastSubmit, fixedVars>>

Min(a, b) == IF a < b THEN a ELSE b

\* tickSize time units pass for every pending timer; a timer is due once its
\* delay has elapsed, and the time it waits beyond that is not counted.
Tick ==
    /\ mounted
    /\ \E s \in TimerSlots :
          timers[s] # NoTimer /\ timers[s].elapsed < timers[s].delay
    /\ timers' = [s \in TimerSlots |->
                    IF timers[s] # NoTimer
                    THEN [timers[s] EXCEPT
                            !.elapsed = Min(@ + tickSize, timers[s].delay)]
                    ELSE timers[s]]
    /\ UNCHANGED <<session, url, taskId, status, isSubmitting, showHistory,
                   pollTimerRef, mounted, localStorage, inflight, submit,
                   nextTaskId, terminated, cleared, lastSubmit, fixedVars>>

\* page.tsx 130-137: handleSubmit up to the await of api.createTask(url).
\* Variant of HandleSubmit that displays a pending record of its own
\* instead of resetting the status.
HandleSubmit_LocalRecord ==
    /\ mounted /\ FormShown /\ ~SubmitDisabled
    /\ Trim(url) # "" /\ session
    /\ isSubmitting' = TRUE
    /\ status' = [task_id |-> taskId, status |-> "pending",
                  current_step |-> "Submitting", result |-> Null,
                  error |-> Null]
    /\ submit' = [pc |-> "createTask", url |-> url, task_id |-> NoTask]
    /\ UNCHANGED <<session, url, taskId, showHistory, pollTimerRef, mounted,
                   localStorage, timers, inflight, nextTaskId, terminated,
                   cleared, lastSubmit, fixedVars>>

\* page.tsx 130-137: handleSubmit up to the await of api.createTask.
HandleSubmit ==
    /\ mounted /\ FormShown /\ ~SubmitDisabled
    /\ Trim(url) # "" /\ session
    /\ isSubmitting' = TRUE
    /\ status' = NoStatus
    /\ submit' = [pc |-> "createTask", url |-> url, task_id |-> NoTask]
    /\ UNCHANGED <<session, url, taskId, showHistory, pollTimerRef, mounted,
                   localStorage, timers, inflight, nextTaskId, terminated,
                   cleared, lastSubmit, fixedVars>>

\* page.tsx 138-143: createTask resolved with a fresh task id; handleSubmit
\* runs up to the await of supabaseApi.syncTaskStart.
CreateTaskResolve ==
    /\ mounted
    /\ submit.pc = "createTask"
    /\ nextTaskId <= MaxTasks
    /\ taskId' = nextTaskId
    /\ localStorage' = [wiki_gen_task_id |-> nextTaskId,
                        wiki_gen_repo_url |-> submit.url]
    /\ submit' = [submit EXCEPT !.pc = "syncTaskStart", !.task_id = nextTaskId]
    /\ nextTaskId' = nextTaskId + 1
    /\ lastSubmit' = [task_id |-> nextTaskId, url |-> submit.url]
    /\ UNCHANGED <<session, url, status, isSubmitting, showHistory,
                   pollTimerRef, mounted, timers, inflight, terminated,
                   cleared, fixedVars>>

\* Variant of CreateTaskReject that also forgets the current task.
CreateTaskReject_ForgetsTask ==
    /\ mounted
    /\ submit.pc = "createTask"
    /\ submit' = [submit EXCEPT !.pc = "alert"]
    /\ taskId' = NoTask
    /\ localStorage' = [wiki_gen_task_id |-> NoTask, wiki_gen_repo_url |-> Null]
    /\ UNCHANGED <<session, url, status, isSubmitting, showHistory,
                   pollTimerRef, mounted, timers, inflight, nextTaskId,
                   terminated, cleared, lastSubmit, fixedVars>>

\* page.tsx 146-148: createTask rejected; the catch opens the alert, which
\* blocks the page until it is dismissed.
CreateTaskReject ==
    /\ mounted
    /\ submit.pc = "createTask"
    /\ submit' = [submit EXCEPT !.pc = "alert"]
    /\ UNCHANGED <<session, url, taskId, status, isSubmitting, showHistory,
                   pollTimerRef, mounted, localStorage, timers, inflight,
                   nextTaskId, terminated, cleared, lastSubmit, fixedVars>>

\* page.tsx 149-151: the alert is dismissed and the finally block runs.
AlertDismissed ==
    /\ mounted
    /\ submit.pc = "alert"
    /\ submit' = NoSubmit
    /\ isSubmitting' = FALSE
    /\ UNCHANGED <<session, url, taskId, status, showHistory, pollTimerRef,
                   mounted, localStorage, timers, inflight, nextTaskId,
                   terminated, cleared, lastSubmit, fixedVars>>

\* page.tsx 145-151: syncTaskStart returned (it returns {error}, it does not
\* throw); pollStatus(res.task_id) is called, then finally.
SyncTaskStartDone ==
    /\ mounted
    /\ submit.pc = "syncTaskStart"
    /\ inflight[submit.task_id] < MaxOutstanding
    /\ inflight' = CallPollStatus(inflight, submit.task_id)
    /\ submit' = NoSubmit
    /\ isSubmitting' = FALSE
    /\ UNCHANGED <<session, url, taskId, status, showHistory, pollTimerRef,
                   mounted, localStorage, timers, nextTaskId, terminated,
                   cleared, lastSubmit, fixedVars>>

\* Variant of HandleClear that leaves the repository URL key in place.
HandleClear_KeepsRepoUrl ==
    /\ ~AlertOpen
    /\ mounted /\ ClearShown
    /\ taskId' = NoTask
    /\ status' = NoStatus
    /\ url' = ""
    /\ localStorage' = [localStorage EXCEPT !.wiki_gen_task_id = NoTask]
    /\ timers' = ClearTimeout(timers, pollTimerRef)
    /\ pollTimerRef' = NoTimerRef
    /\ cleared' = IF taskId \in TaskIds THEN cleared \cup {taskId} ELSE cleared
    /\ lastSubmit' = NoSubmission
    /\ UNCHANGED <<session, isSubmitting, showHistory, mounted, inflight,
                   submit, nextTaskId, terminated, fixedVars>>

\* page.tsx 154-161
HandleClear ==
    /\ ~AlertOpen
    /\ mounted /\ ClearShown
    /\ taskId' = NoTask
    /\ status' = NoStatus
    /\ url' = ""
    /\ localStorage' = [wiki_gen_task_id |-> NoTask, wiki_gen_repo_url |-> Null]
    /\ timers' = ClearTimeout(timers, pollTimerRef)
    /\ pollTimerRef' = NoTimerRef
    /\ cleared' = IF taskId \in TaskIds THEN cleared \cup {taskId} ELSE cleared
    /\ lastSubmit' = NoSubmission
    /\ UNCHANGED <<session, isSubmitting, showHistory, mounted, inflight,
                   submit, nextTaskId, terminated, fixedVars>>

\* The rows of the history list (page.tsx 339-342): a task of an earlier
\* session, stored with or without a result.
HistoryItems ==
    { [task_id |-> OldTask, status |-> "completed", result |-> r] :
        r \in {"result", Null} }

\* page.tsx 167-184, reached by a click on a completed row (342). The else
\* branch only alerts.
HandleSelectHistoryTask(task) ==
    /\ ~AlertOpen
    /\ mounted /\ session /\ showHistory
    /\ task.status = "completed"
    /\ task.status = "completed" /\ task.result # Null
    /\ status' = [task_id |-> task.task_id,
                  status |-> "completed",
                  current_step |-> "Loaded from history",
                  result |-> task.result,
                  error |-> Null]
    /\ taskId' = task.task_id
    /\ showHistory' = FALSE
    /\ UNCHANGED <<session, url, isSubmitting, pollTimerRef, mounted,
                   localStorage, timers, inflight, submit, nextTaskId,
                   terminated, cleared, lastSubmit, fixedVars>>

\* The page is reloaded or closed: the cleanup effect (page.tsx 124-128)
\* clears the timer, the instance and its pending callbacks are gone, and a
\* new instance is constructed. The persistence store and the server stay.
Unload ==
    /\ mounted
    /\ session' = FALSE
    /\ url' = ""
    /\ taskId' = NoTask
    /\ status' = NoStatus
    /\ isSubmitting' = FALSE
    /\ showHistory' = FALSE
    /\ pollTimerRef' = NoTimerRef
    /\ mounted' = FALSE
    /\ timers' = NoTimers
    /\ inflight' = [t \in TaskIds |-> 0]
    /\ submit' = NoSubmit
    /\ terminated' = {}
    /\ cleared' = {}
    /\ UNCHANGED <<localStorage, nextTaskId, lastSubmit, fixedVars>>

HomeNext ==
    \/ RestoreEffect
    \/ AuthStateChange
    \/ \E u \in UrlInputs : SetUrl(u)
    \/ ToggleHistory
    \/ \E id \in TaskIds : \E o \in PollOutcomes(id) : PollSettle(id, o)
    \/ \E s \in TimerSlots : TimerFire(s)
    \/ Tick
    \/ HandleSubmit
    \/ CreateTaskResolve
    \/ CreateTaskReject
    \/ AlertDismissed
    \/ SyncTaskStartDone
    \/ HandleClear
    \/ \E task \in HistoryItems : HandleSelectHistoryTask(task)
    \/ Unload

\* ------------------------------------------------------------ WikiViewer actions
\* WikiViewer.tsx 186-251: the page effect for the given selection and
\* structure, up to the await of axios.get. st holds loadingPage, error and
\* the outstanding requests; a throw before the request is caught at once.
FetchPageEffect(sel, struct, urls, st) ==
    IF sel = Null \/ struct = <<>> \/ urls = <<>>
    THEN st
    ELSE LET index == FindIndex(FlattenIds(struct), sel) IN
         IF ~FoundById(struct, sel) \/ index = 0 \/ index > Len(urls)
         THEN [loadingPage |-> FALSE,
               error |-> "Failed to load page content.",
               pageFetches |-> st.pageFetches]
         ELSE [loadingPage |-> TRUE,
               error |-> st.error,
               pageFetches |-> [st.pageFetches EXCEPT ![sel] = @ + 1]]

\* Variant of MatchedUrl that takes the first URL for every page.
MatchedUrl_First(struct, urls, sel) == urls[1]

\* The URL fetchPage requests for a selected id (WikiViewer.tsx 221).
MatchedUrl(struct, urls, sel) == urls[FindIndex(FlattenIds(struct), sel)]

\* Variant of FetchStructure that requests the first page's content together
\* with the structure.
FetchStructure_EagerPage ==
    /\ structureFetch = "unmounted"
    /\ contentUrls # <<>>
    /\ structureFetch' = "inflight"
    /\ loading' = TRUE
    /\ loadingPage' = TRUE
    /\ pageFetches' = [pageFetches EXCEPT !["a"] = 1]
    /\ UNCHANGED <<contentUrls, structure, selectedId, pageContent,
                   error, structureData, homeVars>>

\* WikiViewer.tsx 128-136, 181-183: the structure effect issues its request.
FetchStructure ==
    /\ structureFetch = "unmounted"
    /\ contentUrls # <<>>
    /\ structureFetch' = "inflight"
    /\ loading' = TRUE
    /\ UNCHANGED <<contentUrls, structure, selectedId, pageContent,
                   loadingPage, error, pageFetches, structureData, homeVars>>

\* WikiViewer.tsx 137-178: the structure request resolved with doc. When the
\* normalization throws, the catch sets the error; otherwise the page effect
\* runs for the new structure and selection.
StructureResolve(doc) ==
    /\ structureFetch = "inflight"
    /\ structureData' = doc
    /\ LET n == NormalizeStructure(doc)
           normalized == n.value
           sel == IF Len(normalized) > 0 THEN normalized[1].id ELSE selectedId
           st == FetchPageEffect(sel, normalized, contentUrls,
                    [loadingPage |-> loadingPage, error |-> error,
                     pageFetches |-> pageFetches])
       IN IF n.threw
          THEN /\ error' = "Failed to load documentation structure."
               /\ UNCHANGED <<structure, selectedId, loadingPage, pageFetches>>
          ELSE /\ structure' = normalized
               /\ selectedId' = sel
               /\ loadingPage' = st.loadingPage
               /\ error' = st.error
               /\ pageFetches' = st.pageFetches
    /\ loading' = FALSE
    /\ structureFetch' = "settled"
    /\ UNCHANGED <<contentUrls, pageContent, homeVars>>

\* WikiViewer.tsx 173-178: the structure request failed.
StructureReject ==
    /\ structureFetch = "inflight"
    /\ error' = "Failed to load documentation structure."
    /\ loading' = FALSE
    /\ structureFetch' = "settled"
    /\ UNCHANGED <<contentUrls, structure, selectedId, pageContent,
                   loadingPage, pageFetches, structureData, homeVars>>

\* WikiViewer.tsx 321-335: the sidebar is rendered.
SidebarShown == ~(loading /\ structure = <<>>) /\ error = Null

\* WikiViewer.tsx 274: a click on a sidebar entry, followed by the page
\* effect for the new selection.
SelectPage(id) ==
    /\ SidebarShown
    /\ FoundById(structure, id)
    /\ id # selectedId
    /\ pageFetches[id] < MaxFetches
    /\ selectedId' = id
    /\ LET st == FetchPageEffect(id, structure, contentUrls,
                    [loadingPage |-> loadingPage, error |-> error,
                     pageFetches |-> pageFetches])
       IN /\ loadingPage' = st.loadingPage
          /\ error' = st.error
          /\ pageFetches' = st.pageFetches
    /\ UNCHANGED <<contentUrls, structure, pageContent, loading,
                   structureFetch, structureData, homeVars>>

\* WikiViewer.tsx 224-250: the content request issued for selection id
\* resolved.
PageResolve(id) ==
    /\ pageFetches[id] > 0
    /\ pageFetches' = [pageFetches EXCEPT ![id] = @ - 1]
    /\ pageContent' =
         FinalPageContent(DocAt(MatchedUrl(structure, contentUrls, id)))
    /\ loadingPage' = FALSE
    /\ UNCHANGED <<contentUrls, structure, selectedId, loading, error,
                   structureFetch, structureData, homeVars>>

\* WikiViewer.tsx 245-250: the content request issued for selection id
\* failed.
PageReject(id) ==
    /\ pageFetches[id] > 0
    /\ pageFetches' = [pageFetches EXCEPT ![id] = @ - 1]
    /\ error' = "Failed to load page content."
    /\ loadingPage' = FALSE
    /\ UNCHANGED <<contentUrls, structure, selectedId, pageContent, loading,
                   structureFetch, structureData, homeVars>>

WikiNext ==
    \/ FetchStructure
    \/ \E doc \in StructureDocs : StructureResolve(doc)
    \/ StructureReject
    \/ \E id \in PageIds : SelectPage(id)
    \/ \E id \in PageIds : PageResolve(id)
    \/ \E id \in PageIds : PageReject(id)

\* A WikiViewer constructed with its props; the Home state stays as
\* constructed.
WikiInit ==
    /\ FreshInstance
    /\ localStorage = [wiki_gen_task_id |-> NoTask, wiki_gen_repo_url |-> Null]
    /\ lastSubmit = NoSubmission
    /\ nextTaskId = 2
    /\ tickSize = LongDelay
    /\ WikiFresh
    /\ contentUrls \in ContentUrlLists
    /\ apiCall = NoCall
    /\ parseCall = NoParse
    /\ DiagramIdle

SpecWiki == WikiInit /\ [][WikiNext]_vars

\* ------------------------------------------------------------ api.getTaskStatus alone
\* api.getTaskStatus(task_id) was called and its request settles with the
\* outcome drawn at the start.
ApiSettle ==
    /\ apiCall.pc = "called"
    /\ LET r == GetTaskStatus(apiCall.task_id, apiCall.outcome) IN
       apiCall' = [apiCall EXCEPT
                     !.pc = IF r.threw THEN "threw" ELSE "returned",
                     !.value = r.value]
    /\ UNCHANGED <<homeVarsButApi, wikiVars>>

ApiInit ==
    /\ FreshInstance
    /\ localStorage = [wiki_gen_task_id |-> NoTask, wiki_gen_repo_url |-> Null]
    /\ lastSubmit = NoSubmission
    /\ nextTaskId = 2
    /\ tickSize = LongDelay
    /\ WikiIdle
    /\ parseCall = NoParse
    /\ DiagramIdle
    /\ \E id \in TaskIds \cup {OldTask} : \E o \in Outcomes(id) :
          apiCall = [pc |-> "called", task_id |-> id, outcome |-> o,
                     value |-> NoStatus]

SpecApi == ApiInit /\ [][ApiSettle]_vars

\* ------------------------------------------------------------ parseContentSafely alone
\* WikiViewer.tsx 235: parseContentSafely(res.data.content) returns.
ParseReturn ==
    /\ parseCall.pc = "called"
    /\ parseCall' = [parseCall EXCEPT
                       !.pc = "returned",
                       !.value = parseContentSafely(parseCall.rawContent)]
    /\ UNCHANGED <<session, url, taskId, status, isSubmitting, showHistory,
                   pollTimerRef, mounted, localStorage, timers, inflight,
                   submit, nextTaskId, tickSize, terminated, cleared,
                   lastSubmit, wikiVars, apiCall, diagramVars>>

ParseInit ==
    /\ FreshInstance
    /\ localStorage = [wiki_gen_task_id |-> NoTask, wiki_gen_repo_url |-> Null]
    /\ lastSubmit = NoSubmission
    /\ nextTaskId = 2
    /\ tickSize = LongDelay
    /\ WikiIdle
    /\ apiCall = NoCall
    /\ DiagramIdle
    /\ \E raw \in RawContents :
          parseCall = [pc |-> "called", rawContent |-> raw,
                       value |-> EmptyContent]

SpecParse == ParseInit /\ [][ParseReturn]_vars

\* ------------------------------------------------------------ Mermaid component
\* Mermaid.tsx 82-112: the render effect for chart ch, run with the module
\* state (initialized, module); gives the timer and isLoading it leaves.
RenderEffect(ch, initialized, module, isLoading) ==
    IF ch = EmptyChart \/ ~initialized \/ ~module
    THEN [timer |-> FALSE,
          isLoading |-> IF ch = EmptyChart THEN FALSE ELSE isLoading]
    ELSE [timer |-> TRUE, isLoading |-> isLoading]

\* An instance mounts with chart ch: the load effect (Mermaid.tsx 20-56)
\* runs, then the render effect (82-112).
Mount(c, ch) ==
    /\ instances[c].life = "new"
    /\ LET ready == mermaidInitialized /\ mermaidModule
           \* loadMermaid runs up to its first await
           imports == ~ready /\ ~mermaidModule
           initNow == ~ready /\ mermaidModule /\ ~mermaidInitialized
           afterLoad == IF ready \/ initNow THEN FALSE ELSE TRUE
           eff == RenderEffect(ch, mermaidInitialized \/ initNow,
                               mermaidModule, afterLoad)
       IN /\ mermaidInitialized' = (mermaidInitialized \/ initNow)
          /\ initializeCalls' = initializeCalls + (IF initNow THEN 1 ELSE 0)
          /\ instances' = [instances EXCEPT ![c] =
                 [@ EXCEPT !.life = "mounted",
                           !.chart = ch,
                           !.isLoading = eff.isLoading,
                           !.load = IF imports THEN "importing" ELSE "none",
                           !.timer = eff.timer,
                           !.early = (ch # EmptyChart /\ ~mermaidInitialized)]]
    /\ UNCHANGED <<mermaidModule, prepCall, pageVars, wikiVars, apiCall,
                   parseCall>>

\* Variant of ImportResolve that calls initialize without testing the flag.
ImportResolve_AlwaysInitializes(c) ==
    /\ instances[c].load = "importing"
    /\ mermaidModule' = TRUE
    /\ mermaidInitialized' = TRUE
    /\ initializeCalls' = initializeCalls + 1
    /\ instances' = [instances EXCEPT ![c] =
           [@ EXCEPT !.load = "none",
                     !.isLoading = IF instances[c].life = "mounted"
                                   THEN FALSE ELSE instances[c].isLoading]]
    /\ UNCHANGED <<prepCall, pageVars, wikiVars, apiCall, parseCall>>

\* Mermaid.tsx 28-46: import('mermaid') resolves for the instance's
\* loadMermaid call; the state setter acts only on a mounted instance.
ImportResolve(c) ==
    /\ instances[c].load = "importing"
    /\ mermaidModule' = TRUE
    /\ mermaidInitialized' = TRUE
    /\ initializeCalls' =
          initializeCalls + (IF mermaidInitialized THEN 0 ELSE 1)
    /\ instances' = [instances EXCEPT ![c] =
           [@ EXCEPT !.load = "none",
                     !.isLoading = IF instances[c].life = "mounted"
                                   THEN FALSE ELSE instances[c].isLoading]]
    /\ UNCHANGED <<prepCall, pageVars, wikiVars, apiCall, parseCall>>

\* Mermaid.tsx 47-51: import('mermaid') rejects.
ImportReject(c) ==
    /\ instances[c].load = "importing"
    /\ instances' = [instances EXCEPT ![c] =
           IF instances[c].life = "mounted"
           THEN [@ EXCEPT !.load = "none", !.isError = TRUE,
                          !.isLoading = FALSE]
           ELSE [@ EXCEPT !.load = "none"]]
    /\ UNCHANGED <<mermaidInitialized, mermaidModule, initializeCalls,
                   prepCall, pageVars, wikiVars, apiCall, parseCall>>

\* The chart prop changes to ch: the cleanup of the render effect clears
\* the timer (Mermaid.tsx 111) and the effect runs again (82-112).
ChartChange(c, ch) ==
    /\ instances[c].life = "mounted"
    /\ ch # instances[c].chart
    /\ instances[c].changes < MaxChartChanges
    /\ LET eff == RenderEffect(ch, mermaidInitialized, mermaidModule,
                               instances[c].isLoading)
       IN instances' = [instances EXCEPT ![c] =
              [@ EXCEPT !.chart = ch,
                        !.timer = eff.timer,
                        !.isLoading = eff.isLoading,
                        !.changes = @ + 1]]
    /\ UNCHANGED <<mermaidInitialized, mermaidModule, initializeCalls,
                   prepCall, pageVars, wikiVars, apiCall, parseCall>>

\* Mermaid.tsx 90-100, 110: the timer fires and renderChart runs up to
\* await mermaid.render(id, prepareChart(chart)).
RenderTimerFire(c) ==
    /\ instances[c].life = "mounted"
    /\ instances[c].timer
    /\ instances' = [instances EXCEPT ![c] =
           [@ EXCEPT !.timer = FALSE,
                     !.isError = FALSE,
                     !.isLoading = TRUE,
                     !.svg = <<>>,
                     !.started = @ + 1,
                     !.latest = "pending",
                     !.rejections = 0,
                     !.renders = @ \cup
                        {[n |-> instances[c].started + 1,
                          chart |-> instances[c].chart,
                          source |-> prepareChart(instances[c].chart)]}]]
    /\ UNCHANGED <<mermaidInitialized, mermaidModule, initializeCalls,
                   prepCall, pageVars, wikiVars, apiCall, parseCall>>

\* Mermaid.tsx 100-102: mermaid.render resolves for the call r.
RenderResolve(c, r) ==
    /\ r \in instances[c].renders
    /\ instances' = [instances EXCEPT ![c] =
           IF instances[c].life = "mounted"
           THEN [@ EXCEPT !.renders = @ \ {r},
                          !.svg = SvgOf(r.source),
                          !.isLoading = FALSE,
                          !.latest = IF r.n = instances[c].started
                                     THEN "ok" ELSE @]
           ELSE [@ EXCEPT !.renders = @ \ {r}]]
    /\ UNCHANGED <<mermaidInitialized, mermaidModule, initializeCalls,
                   prepCall, pageVars, wikiVars, apiCall, parseCall>>

\* Mermaid.tsx 103-107: mermaid.render rejects for the call r.
RenderReject(c, r) ==
    /\ r \in instances[c].renders
    /\ instances' = [instances EXCEPT ![c] =
           IF instances[c].life = "mounted"
           THEN [@ EXCEPT !.renders = @ \ {r},
                          !.isError = TRUE,
                          !.isLoading = FALSE,
                          !.rejections = @ + 1,
                          !.latest = IF r.n = instances[c].started
                                     THEN "failed" ELSE @]
           ELSE [@ EXCEPT !.renders = @ \ {r}]]
    /\ UNCHANGED <<mermaidInitialized, mermaidModule, initializeCalls,
                   prepCall, pageVars, wikiVars, apiCall, parseCall>>

\* The instance unmounts: the cleanup of the render effect clears the
\* timer (Mermaid.tsx 111) and the component state is gone.
Unmount(c) ==
    /\ instances[c].life = "mounted"
    /\ instances' = [instances EXCEPT ![c] =
           [FreshComponent EXCEPT !.life = "gone",
                                  !.load = instances[c].load,
                                  !.renders = instances[c].renders]]
    /\ UNCHANGED <<mermaidInitialized, mermaidModule, initializeCalls,
                   prepCall, pageVars, wikiVars, apiCall, parseCall>>

MermaidNext ==
    \E c \in CompIds :
        \/ \E ch \in Charts : Mount(c, ch)
        \/ ImportResolve(c)
        \/ ImportReject(c)
        \/ \E ch \in Charts : ChartChange(c, ch)
        \/ RenderTimerFire(c)
        \/ \E r \in instances[c].renders : RenderResolve(c, r)
        \/ \E r \in instances[c].renders : RenderReject(c, r)
        \/ Unmount(c)

MermaidInit ==
    /\ FreshInstance
    /\ localStorage = [wiki_gen_task_id |-> NoTask, wiki_gen_repo_url |-> Null]
    /\ lastSubmit = NoSubmission
    /\ nextTaskId = 2
    /\ tickSize = LongDelay
    /\ WikiIdle
    /\ apiCall = NoCall
    /\ parseCall = NoParse
    /\ DiagramIdle

SpecMermaid == MermaidInit /\ [][MermaidNext]_vars

\* What the event loop guarantees: a pending import settles, a pending
\* timer fires and a pending mermaid.render settles. Mounts, unmounts and
\* changes of the chart prop are up to the parent.
MermaidProgress ==
    \E c \in CompIds :
        \/ ImportResolve(c)
        \/ ImportReject(c)
        \/ RenderTimerFire(c)
        \/ \E r \in instances[c].renders : RenderResolve(c, r)
        \/ \E r \in instances[c].renders : RenderReject(c, r)

SpecMermaidLive == SpecMermaid /\ WF_vars(MermaidProgress)

\* ------------------------------------------------------------ prepareChart alone
\* Mermaid.tsx 99: prepareChart(chart)
PrepareOnce ==
    /\ prepCall.pc = "called"
    /\ prepCall' = [prepCall EXCEPT !.pc = "once",
                                    !.once = prepareChart(prepCall.code)]
    /\ UNCHANGED <<pageVars, wikiVars, apiCall, parseCall, mermaidVars>>

\* prepareChart applied to its own result.
PrepareTwice ==
    /\ prepCall.pc = "once"
    /\ prepCall' = [prepCall EXCEPT !.pc = "twice",
                                    !.twice = prepareChart(prepCall.once)]
    /\ UNCHANGED <<pageVars, wikiVars, apiCall, parseCall, mermaidVars>>

PrepareNext == PrepareOnce \/ PrepareTwice

PrepareInit ==
    /\ FreshInstance
    /\ localStorage = [wiki_gen_task_id |-> NoTask, wiki_gen_repo_url |-> Null]
    /\ lastSubmit = NoSubmission
    /\ nextTaskId = 2
    /\ tickSize = LongDelay
    /\ WikiIdle
    /\ apiCall = NoCall
    /\ parseCall = NoParse
    /\ MermaidFresh
    /\ \E code \in Sources :
          prepCall = [pc |-> "called", code |-> code, once |-> <<>>,
                      twice |-> <<>>]

SpecPrepare == PrepareInit /\ [][PrepareNext]_vars

Next == HomeNext

Spec == Init /\ [][Next]_vars

SpecTimed == InitTimed /\ [][Next]_vars

\* ------------------------------------------------------------ properties
\* C1: once pollStatus has committed the terminal (completed or failed)
\* record of a task, whatever pending/processing responses and transport
\* errors came before, that record was committed by the step that ended the
\* watch, and from then on this instance has no request outstanding and no
\* timer pending for that task, so it is neither polled nor committed again.
C1_TerminalEndsWatch ==
    /\ [](\A t \in TaskIds :
            t \in terminated => inflight[t] = 0 /\ TimersOf(timers, t) = {})
    /\ [][\A t \in TaskIds :
            (t \notin terminated /\ t \in terminated')
                => status'.task_id = t /\ IsTerminal(status')]_vars

\* C1 witness: the terminal record of a task is displayed and its watch has
\* ended, while the watch of another task is still alive.
C1_Witness ==
    \E t \in terminated :
        /\ status.task_id = t /\ IsTerminal(status)
        /\ \E o \in TaskIds \ {t} : inflight[o] = 1 \/ TimersOf(timers, o) # {}

\* C2: at most one getTaskStatus request per task id is outstanding, under
\* every interleaving of resume, submit, clear, timers and poll completions.
C2_OnePollPerTask == \A t \in TaskIds : inflight[t] <= 1

\* C2 witness: two tasks are polled at once, one request each.
C2_Witness ==
    \E t1, t2 \in TaskIds : t1 # t2 /\ inflight[t1] = 1 /\ inflight[t2] = 1

\* C3: after handleClear no getTaskStatus request is issued for the cleared
\* task and no poll timer of it is pending, also when the clear ran while a
\* request of that task was in flight.
C3_NoPollAfterClear ==
    /\ [](\A t \in cleared : TimersOf(timers, t) = {})
    /\ [][\A t \in cleared : inflight'[t] <= inflight[t]]_vars

\* C4: a poll response of a task that handleClear has cleared is discarded:
\* the displayed status never is a record of a cleared task.
C4_LateResponseDiscarded == \A t \in cleared : status.task_id # t

\* Every content request has settled and a page is displayed without error.
PagesSettled ==
    /\ structureFetch = "settled"
    /\ \A i \in PageIds : pageFetches[i] = 0
    /\ error = Null
    /\ selectedId # Null
    /\ pageContent # NoPage

\* C5: once the content requests have resolved, the displayed pageContent is
\* the content of the currently selected page, whatever the order in which
\* the responses arrived.
C5_SelectedPageShown ==
    PagesSettled =>
        pageContent =
            FinalPageContent(DocAt(MatchedUrl(structure, contentUrls, selectedId)))

\* The record api.getTaskStatus synthesizes for a task that was not found.
IsNotFoundRecord(v, id) ==
    /\ v.task_id = id
    /\ v.status = "failed"
    /\ v.result = Null
    /\ v.error # Null

\* C6: api.getTaskStatus does not reject on an HTTP 404 of an AxiosError: it
\* returns a failed record with the requested task_id, a null result and a
\* non-null error; it returns the server's record when the request succeeds
\* and rethrows every other error.
C6_NotFoundIsFailedRecord ==
    apiCall.pc \in {"returned", "threw"} =>
        IF apiCall.outcome.kind = "ok"
        THEN apiCall.pc = "returned" /\ apiCall.value = apiCall.outcome.data
        ELSE IF apiCall.outcome.isAxiosError
                /\ apiCall.outcome.code = NotFoundCode
        THEN apiCall.pc = "returned"
             /\ IsNotFoundRecord(apiCall.value, apiCall.task_id)
        ELSE apiCall.pc = "threw"

\* C6 witness: a call that met a 404 has returned.
C6_Witness ==
    /\ apiCall.pc = "returned"
    /\ apiCall.outcome.kind = "error"
    /\ apiCall.outcome.code = NotFoundCode
    /\ apiCall.value.error = "Task not found or expired"

\* The delay the policy asks for after a response, or after an error.
RequiredDelay(cause) == IF cause = "error" THEN LongDelay ELSE ShortDelay

\* In this step a poll of t settled without committing a terminal record.
NonTerminalSettle(t) ==
    mounted' /\ inflight'[t] = inflight[t] - 1 /\ t \notin terminated'

ArmedSlots == {s \in TimerSlots : timers[s] = NoTimer /\ timers'[s] # NoTimer}

\* C7: when a poll of task t settles without a terminal status, exactly one
\* follow-up is scheduled, for the same t: with the short delay when a
\* pending/processing record was committed, with the long delay when the
\* poll threw; no request is issued in that step, and a timer's poll is
\* never issued before the delay of its cause has elapsed.
C7_FollowUpAfterDelay ==
    /\ [][\A t \in TaskIds : NonTerminalSettle(t) =>
            /\ Cardinality(ArmedSlots) = 1
            /\ \A u \in TaskIds \ {t} : inflight'[u] = inflight[u]
            /\ \A s \in ArmedSlots :
                 /\ timers'[s].id = t
                 /\ timers'[s].elapsed = 0
                 /\ timers'[s].delay = RequiredDelay(timers'[s].cause)
                 /\ timers'[s].cause = "response"
                      => status'.task_id = t /\ ~IsTerminal(status')
                 /\ timers'[s].cause = "error" => status' = status]_vars
    /\ [][\A s \in TimerSlots :
            (/\ timers[s] # NoTimer
             /\ timers'[s] = NoTimer
             /\ inflight'[timers[s].id] = inflight[timers[s].id] + 1)
                => timers[s].elapsed >= RequiredDelay(timers[s].cause)]_vars

\* C7 witness: a retry timer armed by the catch block has become due while a
\* timer armed by a processing response is still running.
C7_Witness ==
    \E s1, s2 \in TimerSlots :
        /\ timers[s1].cause = "error" /\ timers[s1].elapsed = LongDelay
        /\ timers[s2].cause = "response" /\ timers[s2].elapsed < ShortDelay
        /\ timers[s2].id # NoTask

\* C8: the mount of a new Home instance polls exactly the persisted task id,
\* once, and starts no submission; with no persisted id it issues no poll.
C8_MountResumes ==
    [][(~mounted /\ mounted') =>
        /\ taskId' = localStorage.wiki_gen_task_id
        /\ \A t \in TaskIds :
             inflight'[t] = IF t = localStorage.wiki_gen_task_id THEN 1 ELSE 0
        /\ timers' = NoTimers
        /\ submit' = NoSubmit
        /\ nextTaskId' = nextTaskId
        /\ localStorage' = localStorage]_vars

\* C8 witness: a reloaded instance polls the task an earlier instance
\* submitted, and no further task has been created.
C8_Witness ==
    /\ mounted
    /\ localStorage.wiki_gen_task_id = 2
    /\ taskId = 2
    /\ inflight[2] = 1
    /\ cleared = {}
    /\ submit = NoSubmit
    /\ nextTaskId = 3
    /\ status = NoStatus

\* C9: the two persisted keys hold the task id and the URL of the latest
\* successful submission that no handleClear followed, and both are absent
\* otherwise; the task id is a single slot.
C9_PersistedSubmission ==
    /\ localStorage.wiki_gen_task_id = lastSubmit.task_id
    /\ localStorage.wiki_gen_repo_url = lastSubmit.url
    /\ localStorage.wiki_gen_task_id = NoTask
         <=> localStorage.wiki_gen_repo_url = Null
    /\ localStorage.wiki_gen_task_id \in TaskIds \cup {NoTask}

\* C9 witness: an earlier task was cleared, a submission of u1 succeeded
\* after it and is the persisted one.
C9_Witness ==
    /\ 1 \in cleared
    /\ localStorage = [wiki_gen_task_id |-> 2, wiki_gen_repo_url |-> "u1"]
    /\ url = ""

\* The step is handleClear: the client is back in NONE.
ClearStep ==
    /\ status' = NoStatus
    /\ taskId' = NoTask
    /\ isSubmitting' = isSubmitting
    /\ localStorage' = [wiki_gen_task_id |-> NoTask, wiki_gen_repo_url |-> Null]

\* The displayed terminal status changes in a step of this instance.
LeavesTerminal == mounted' /\ IsTerminal(status) /\ status' # status

RejectedSubmitStep ==
    /\ mounted'
    /\ \/ submit.pc = "createTask" /\ submit'.pc = "alert"
       \/ submit.pc = "alert"

\* C11: when createTask rejects inside handleSubmit, no createTask is pending
\* afterwards (no retry) and no task has been created, no poll request or
\* poll timer is issued, taskId and both persisted keys are left as they
\* were, and isSubmitting is false when the handler has ended.
C11_RejectedSubmitLeavesTask ==
    /\ [][RejectedSubmitStep =>
            /\ submit'.pc \in {"alert", "idle"}
            /\ nextTaskId' = nextTaskId
            /\ inflight' = inflight
            /\ \A s \in TimerSlots : timers'[s].id = timers[s].id
            /\ taskId' = taskId
            /\ localStorage' = localStorage
            /\ isSubmitting
            /\ submit'.pc = "idle" => ~isSubmitting']_vars
    /\ [](submit.pc = "idle" => ~isSubmitting)

\* C11 witness: a submission made from the failed state of a restored task has
\* been rejected; the task id is still held in memory and in both keys and
\* nothing is polled.
C11_Witness ==
    /\ submit.pc = "alert"
    /\ taskId \in TaskIds
    /\ localStorage.wiki_gen_task_id = taskId
    /\ localStorage.wiki_gen_repo_url # Null
    /\ \A t \in TaskIds : inflight[t] = 0 /\ TimersOf(timers, t) = {}

\* C12: once the structure is loaded, a page whose content cannot be resolved
\* or fetched does not take the sidebar away: the other pages stay
\* selectable.
C12_PageFailureStaysLocal ==
    (structureFetch = "settled" /\ structure # <<>>
       /\ error # "Failed to load documentation structure.")
    => SidebarShown

\* The trailing path segment of a content URL.
TrailingSegment(u) ==
    CASE u = "https://h/p/a.json" -> "a.json"
      [] u = "https://h/p/b.json" -> "b.json"
      [] u = "https://h/p/c.json" -> "c.json"
      [] u = "https://h/p/0.json" -> "0.json"
      [] OTHER -> "1.json"

RECURSIVE FlattenNames(_)
\* The filenames, declared or derived from the id, of the nodes of a tree in
\* depth-first order.
FlattenNames(items) ==
    IF items = <<>> THEN <<>>
    ELSE << Or(Head(items).filename, JsonName(Head(items).id)) >>
         \o FlattenNames(Head(items).children)
         \o FlattenNames(Tail(items))

\* The position of node id in the depth-first flattening of the structure.
DepthFirstIndex(id) == FindIndex(FlattenIds(structure), id)

\* Some URL of the list ends in the filename of node id.
HasFilenameMatch(id) ==
    \E k \in 1..Len(contentUrls) :
        TrailingSegment(contentUrls[k]) =
            FlattenNames(structure)[DepthFirstIndex(id)]

\* C13: whenever content is requested for a node and some URL's trailing
\* segment equals the node's filename, the requested URL has that trailing
\* segment, wherever the node and the URL stand in their lists.
C13_FilenameMatchWins ==
    \A id \in PageIds :
        (pageFetches[id] > 0 /\ HasFilenameMatch(id)) =>
            TrailingSegment(MatchedUrl(structure, contentUrls, id)) =
                FlattenNames(structure)[DepthFirstIndex(id)]

\* No URL of the list matches any node of the tree by filename or by id.
NoUrlMatches(struct, urls) ==
    \A i \in 1..Len(FlattenIds(struct)) : \A k \in 1..Len(urls) :
        /\ TrailingSegment(urls[k]) # FlattenNames(struct)[i]
        /\ StripJson(TrailingSegment(urls[k])) # StripJson(FlattenNames(struct)[i])
        /\ StripJson(TrailingSegment(urls[k])) # FlattenIds(struct)[i]

\* A step that selects a page of a stored structure.
Selects ==
    /\ selectedId' # Null /\ structure' # <<>>
    /\ (selectedId' # selectedId \/ structure' # structure)

\* C14: when no URL matches any node by filename or id, the content displayed
\* for the node at depth-first index N is the document of the URL at index N,
\* and selecting a node whose index is not an index of the URL list issues
\* no request and fails.
C14_PositionalBinding ==
    /\ [][\A id \in PageIds :
            (NoUrlMatches(structure, contentUrls)
               /\ pageFetches'[id] < pageFetches[id]
               /\ pageContent' # pageContent) =>
              /\ DepthFirstIndex(id) \in 1..Len(contentUrls)
              /\ pageContent' =
                   FinalPageContent(DocAt(contentUrls[DepthFirstIndex(id)]))]_vars
    /\ [][(Selects /\ NoUrlMatches(structure', contentUrls')) =>
            LET n == FindIndex(FlattenIds(structure'), selectedId') IN
            IF n \in 1..Len(contentUrls')
            THEN pageFetches'[selectedId'] = pageFetches[selectedId'] + 1
            ELSE /\ pageFetches' = pageFetches
                 /\ error' = "Failed to load page content."]_vars

\* C14 witness: with URLs named by position only, the second node shows the
\* second document, and selecting the third node, which has no URL, failed.
C14_Witness ==
    /\ NoUrlMatches(structure, contentUrls)
    /\ Len(contentUrls) = 2
    /\ pageContent = FinalPageContent(DocAt(contentUrls[2]))
    /\ DepthFirstIndex(selectedId) = 3
    /\ error = "Failed to load page content."

\* C15: no content request is outstanding and no content is displayed before
\* the structure request has settled with a non-empty normalized list, and a
\* content request is issued only in a step after which that list is stored.
C15_StructureBeforeContent ==
    /\ []((structureFetch # "settled" \/ structure = <<>>) =>
            /\ \A id \in PageIds : pageFetches[id] = 0
            /\ pageContent = NoPage
            /\ ~loadingPage)
    /\ [][(\E id \in PageIds : pageFetches'[id] > pageFetches[id]) =>
            /\ structureFetch' = "settled"
            /\ structure' # <<>>
            /\ structure' = NormalizeStructure(structureData').value]_vars

\* C15 witness: the content of the first page is requested once the
\* normalized structure is stored.
C15_Witness ==
    /\ structureFetch = "settled"
    /\ structure # <<>>
    /\ structure = NormalizeStructure(structureData).value
    /\ pageFetches[structure[1].id] = 1
    /\ pageContent = NoPage

\* The structure response has been normalized and stored.
StructureStored ==
    /\ structureFetch = "settled"
    /\ structureData # NoDoc
    /\ error # "Failed to load documentation structure."

\* The document is an array or wraps one in toc or pages.
HasNodeList(doc) ==
    doc.kind = "array" \/ (doc.kind = "object" /\ (doc.toc.isArray \/ doc.pages.isArray))

\* The node list of such a document: the array itself, else toc, else pages.
ChosenList(doc) ==
    IF doc.kind = "array" THEN doc.items
    ELSE IF doc.toc.isArray THEN doc.toc.items
    ELSE doc.pages.items

\* The id of a raw entry: id, else section_id, else the filename without
\* .json, else "unknown".
IdRule(raw) ==
    IF raw.id # Null THEN raw.id
    ELSE IF raw.section_id # Null THEN raw.section_id
    ELSE IF raw.filename # Null THEN StripJson(raw.filename)
    ELSE "unknown"

\* The filename of a raw entry: filename, else id + ".json".
FilenameRule(raw) ==
    IF raw.filename # Null THEN raw.filename ELSE JsonName(IdRule(raw))

\* C16: the stored structure is built from the document itself when it is an
\* array, else from its toc array, else from its pages array, entry by entry
\* in order and with the children of each entry; the document
\* {toc:[{id:a},{id:b,children:[{id:c}]}]} gives two roots, b with the single
\* child c, and the depth-first flattening [a, b, c].
C16_NodeListOrder ==
    /\ (StructureStored /\ HasNodeList(structureData)) =>
          LET list == ChosenList(structureData) IN
          /\ Len(structure) = Len(list)
          /\ \A i \in 1..Len(list) :
                /\ structure[i].id = IdRule(list[i])
                /\ structure[i].children = list[i].children
    /\ (StructureStored /\ structureData = TocExampleDoc) =>
          /\ Len(structure) = 2
          /\ structure[1].id = "a" /\ structure[1].children = <<>>
          /\ structure[2].id = "b"
          /\ Len(structure[2].children) = 1
          /\ structure[2].children[1].id = "c"
          /\ FlattenIds(structure) = << "a", "b", "c" >>

\* C16 witness: a document with both a toc and a pages array has been
\* normalized from its toc.
C16_Witness ==
    /\ StructureStored
    /\ structureData.toc.isArray /\ structureData.pages.isArray
    /\ FlattenIds(structure) = << "b", "a" >>

\* The document is a flat mapping whose values are strings or objects.
IsFlatMapping(doc) ==
    /\ doc.kind = "object" /\ ~doc.toc.isArray /\ ~doc.pages.isArray
    /\ doc.entries # <<>>
    /\ \A i \in 1..Len(doc.entries) :
          doc.entries[i].value.t \in {"string", "object"}

\* C17 as stated: a flat mapping yields one node per key in key order, with
\* the key as id and, as title, the value when it is a string or the value's
\* title field when it is an object with one.
C17_FlatMappingNodes ==
    (StructureStored /\ IsFlatMapping(structureData)) =>
      LET es == structureData.entries IN
      /\ Len(structure) = Len(es)
      /\ \A i \in 1..Len(es) :
            /\ structure[i].id = es[i].key
            /\ es[i].value.t = "string" => structure[i].title = es[i].value.s
            /\ (es[i].value.t = "object" /\ es[i].value.title # Null) =>
                  structure[i].title = es[i].value.title

\* The title the code gives the node of a flat-mapping entry.
FlatTitle(e) ==
    IF e.value.t = "string"
    THEN (IF e.value.s # "" THEN e.value.s ELSE "Untitled")
    ELSE IF e.value.title \notin {Null, ""} THEN e.value.title
    ELSE IF e.key # "" THEN e.key
    ELSE "Untitled"

\* C17 amended: a flat mapping yields one node per key in key order; the id
\* is the key, or "unknown" for the empty key; the title is the value when it
\* is a non-empty string, "Untitled" when it is the empty string, the
\* value's title when the value is an object with a non-empty title, and
\* otherwise the key ("Untitled" for the empty key).
C17_FlatMappingNodesNonEmpty ==
    (StructureStored /\ IsFlatMapping(structureData)) =>
      LET es == structureData.entries IN
      /\ Len(structure) = Len(es)
      /\ \A i \in 1..Len(es) :
            /\ structure[i].id = (IF es[i].key # "" THEN es[i].key ELSE "unknown")
            /\ structure[i].title = FlatTitle(es[i])
            /\ structure[i].children = <<>>

\* C17 witness: the mapping {a: "A title", b: {title: "B title"}} has been
\* normalized to the nodes a and b with these titles.
C17_Witness ==
    /\ StructureStored /\ IsFlatMapping(structureData)
    /\ Len(structure) = 2
    /\ structure[1].id = "a" /\ structure[1].title = "A title"
    /\ structure[2].id = "b" /\ structure[2].title = "B title"

RECURSIVE NodesFollowRule(_, _)
\* Every node of the tree, at every depth, has the non-empty id and the
\* filename the rule derives from its raw entry.
NodesFollowRule(nodes, raws) ==
    /\ Len(nodes) = Len(raws)
    /\ \A i \in 1..Len(nodes) :
          /\ nodes[i].id = IdRule(raws[i])
          /\ nodes[i].id \notin {Null, ""}
          /\ nodes[i].filename = FilenameRule(raws[i])
          /\ NodesFollowRule(nodes[i].children, raws[i].children)

\* C18: in the stored structure every node reachable from the root list, at
\* every depth, has a non-empty id and a filename, both derived by the rule
\* (id: id, else section_id, else filename without .json, else "unknown";
\* filename: filename, else id + ".json").
C18_RuleAtEveryDepth ==
    (StructureStored /\ HasNodeList(structureData)) =>
        NodesFollowRule(structure, ChosenList(structureData))

\* The nodes of a root list are page descriptors.
ValidRoots(nodes) ==
    \A i \in 1..Len(nodes) :
        /\ nodes[i].id \notin {Null, ""}
        /\ nodes[i].title \notin {Null, ""}
        /\ nodes[i].filename \notin {Null, ""}

\* C19: a malformed structure document (null, a scalar, a mapping with null
\* or scalar values, a list with null entries) never makes the
\* normalization fail: the viewer does not enter its error state and stores
\* a list of page descriptors.
C19_MalformedNeverFails ==
    (structureFetch = "settled" /\ structureData \in MalformedDocs) =>
        /\ error # "Failed to load documentation structure."
        /\ ValidRoots(structure)

\* The object a serialized intro holds.
ParsedIntro == JsonParse(parseCall.rawContent.intro).value

\* parseContentSafely has returned for a content object whose intro is a
\* string holding a serialized object.
ReturnedForSerializedIntro ==
    /\ parseCall.pc = "returned"
    /\ parseCall.rawContent.t = "object"
    /\ parseCall.rawContent.isArray
    /\ parseCall.rawContent.intro \in SerializedTexts

\* C20: for a content object whose intro holds a serialized object,
\* parseContentSafely returns the parsed object's intro, sections and
\* mermaid and takes the outer value only for a field the parsed object
\* lacks (mermaid is "" when both lack it); for the intro
\* '{"intro":"real intro","sections":[]}' it returns
\* {intro: "real intro", sections: [], mermaid: ""}.
C20_ParsedIntroWins ==
    ReturnedForSerializedIntro =>
      LET raw == parseCall.rawContent
          p == ParsedIntro
      IN /\ parseCall.value.intro =
               (IF p.intro # Null THEN p.intro ELSE raw.intro)
         /\ parseCall.value.sections =
               (IF p.isArray THEN p.sections ELSE raw.sections)
         /\ parseCall.value.mermaid =
               (IF p.mermaid # Null THEN p.mermaid
                ELSE IF raw.mermaid # Null THEN raw.mermaid ELSE "")
         /\ (raw.intro = RealIntroText /\ raw.mermaid = Null) =>
               parseCall.value =
                 [intro |-> "real intro", sections |-> <<>>, mermaid |-> ""]

\* typeof v === 'string' for the value of a returned field
IsStringValue(v) == v \notin {Null, NumberValue}

\* C21: for every input value (an object, a string, a string serialized
\* once or twice, any other value) parseContentSafely returns, and the
\* value it returns has a string intro, a sequence of sections and a string
\* mermaid.
C21_AlwaysValidShape ==
    parseCall.pc = "returned" =>
        /\ IsStringValue(parseCall.value.intro)
        /\ parseCall.value.sections \in Seq({SectionB, SectionS})
        /\ IsStringValue(parseCall.value.mermaid)

\* C22: the intro parseContentSafely returns is never a serialized content
\* object, whatever the payload: serialized more than once, or with a
\* parsed inner object whose intro is empty or missing.
C22_IntroNeverSerialized ==
    parseCall.pc = "returned" => parseCall.value.intro \notin SerializedTexts

\* C26: prepareChart is idempotent: applied to its own result it returns
\* that result, for every source (sources ending in a literal backslash-n
\* and labels with bracket, paren or quote characters included).
C26_PrepareIdempotent ==
    prepCall.pc = "twice" => prepCall.twice = prepCall.once

\* C23: mermaid.initialize is called at most once, however many instances
\* mount, unmount and mount again, also when several mount before the
\* import has resolved.
C23_InitializeOnce == initializeCalls <= 1

\* mermaid.initialize has been called and the import of another instance,
\* which mounted before the engine was ready and has unmounted since, is
\* still pending.
C23_Witness ==
    /\ initializeCalls = 1
    /\ \E c \in CompIds :
          instances[c].load = "importing" /\ instances[c].life = "gone"

\* The instance shows its diagram (ready) or its error box.
Ready(c) ==
    /\ ~instances[c].isLoading /\ ~instances[c].isError
    /\ instances[c].svg # <<>>
Failed(c) == ~instances[c].isLoading /\ instances[c].isError

\* The instance mounted with a non-empty chart before the engine was
\* initialized, is still mounted and its chart prop has not changed.
Deferred(c) ==
    /\ instances[c].life = "mounted"
    /\ instances[c].early
    /\ instances[c].changes = 0

\* C24: an instance mounted with a non-empty chart before the engine is
\* initialized has its render deferred, not dropped: with no further
\* change of its chart prop it reaches the ready or the error state
\* (unless it unmounts first).
C24_DeferredRenderHappens ==
    \A c \in CompIds :
        Deferred(c) ~> (Ready(c) \/ Failed(c) \/ ~Deferred(c))

\* A call of mermaid.render of instance c settles in this step and the
\* instance enters its error state.
RenderErrorStep(c) ==
    /\ instances[c].life = "mounted"
    /\ instances'[c].renders # instances[c].renders
    /\ instances'[c].renders \subseteq instances[c].renders
    /\ ~instances[c].isError
    /\ instances'[c].isError

\* C25: an instance enters its error state for a chart only after two
\* render attempts for that chart have failed (the second on a more
\* aggressively repaired source); a first failed attempt alone does not
\* show the error.
C25_ErrorAfterTwoAttempts ==
    [][\A c \in CompIds :
          RenderErrorStep(c) => instances'[c].rejections >= 2]_vars

\* Every render of instance c has settled, at least two were started (one
\* before a change of the chart prop and one for the chart shown now) and
\* nothing is scheduled.
RendersSettled(c) ==
    /\ instances[c].life = "mounted"
    /\ instances[c].chart # EmptyChart
    /\ instances[c].changes >= 1
    /\ instances[c].started >= 2
    /\ ~instances[c].timer
    /\ instances[c].renders = {}

\* C27: when the chart prop changes while a render is in flight, the
\* earlier render is superseded: once all renders have settled, the svg
\* and the error flag are those of the render of the current chart,
\* whichever render completed first.
C27_LatestRenderWins ==
    \A c \in CompIds :
        RendersSettled(c) =>
            /\ instances[c].latest = "ok" =>
                  /\ instances[c].svg = SvgOf(prepareChart(instances[c].chart))
                  /\ ~instances[c].isError
            /\ instances[c].latest = "failed" => instances[c].isError

\* The records getTaskStatus(t) can resolve with: a record of the server
\* or the failed record synthesized on a 404.
PollRecords(t) ==
    { GetTaskStatus(t, o).value :
        o \in { x \in PollOutcomes(t) : ~GetTaskStatus(t, x).threw } }

\* A poll of task t settles in this step and its record is displayed.
PollResponseStep ==
    \E t \in TaskIds :
        /\ inflight'[t] = inflight[t] - 1
        /\ status' \in PollRecords(t)

\* A completed history row is selected in this step and the record made
\* of it (page.tsx 170-176) is displayed.
HistoryRecordStep ==
    \E task \in HistoryItems :
        /\ task.result # Null
        /\ showHistory /\ ~showHistory'
        /\ taskId' = task.task_id
        /\ status' = [task_id |-> task.task_id, status |-> "completed",
                      current_step |-> "Loaded from history",
                      result |-> task.result, error |-> Null]

\* C28 as stated: the displayed record changes only through a poll
\* response (the record synthesized on a 404 included) or a reset to null;
\* no other client action writes a record.
C28_OnlyPollsWriteStatus ==
    [][status' # status => (status' = NoStatus \/ PollResponseStep)]_vars

\* C28 as amended: the displayed record changes only through a poll
\* response, through a reset to null, or through the selection of a
\* completed history row, which displays a completed record made of that
\* row.
C28_PollsAndHistoryWriteStatus ==
    [][status' # status =>
         (status' = NoStatus \/ PollResponseStep \/ HistoryRecordStep)]_vars

\* C28 witness: the record of a history row is displayed after the
\* terminal record of a polled task had been displayed.
C28_Witness ==
    /\ terminated # {}
    /\ taskId = OldTask
    /\ status.current_step = "Loaded from history"

\* C29: whenever a status is displayed and a task is current, the status
\* is a record of the current task, after any interleaving of submit,
\* clear, history selection, resume on mount and poll completions.
C29_StatusOfCurrentTask ==
    (status # NoStatus /\ taskId # NoTask) => status.task_id = taskId

\* The polling chains alive: requests in flight and pending poll timers,
\* over all task ids.
ChainsAlive ==
    LET Requests[k \in 0..MaxTasks] ==
            IF k = 0 THEN 0 ELSE Requests[k - 1] + inflight[k]
    IN Requests[MaxTasks]
       + Cardinality({s \in TimerSlots : timers[s] # NoTimer})

\* C30: at most one polling chain is alive at any time, over all task
\* ids: no handler starts a chain while another exists.
C30_OneChainInTotal == ChainsAlive <= 1

TypeOK ==
    /\ taskId \in TaskIds \cup {NoTask, OldTask}
    /\ \A t \in TaskIds : inflight[t] \in 0..MaxOutstanding

====
